---- MODULE Spec2Model ----
(***************************************************************************)
(* The variation tree of the analysis board (BoardAnalysis): a heap of     *)
(* VariationTree objects linked by parent / children references, the       *)
(* `tree` state of the component (the cursor), the Chess instance of the   *)
(* current render, the editing-mode toggle and the session storage entry   *)
(* the tree is persisted to.                                               *)
(***************************************************************************)
EXTENDS Integers, Sequences, FiniteSets, Bags, TLC

VARIABLES
    heap,         \* the VariationTree objects allocated so far, by reference 1..Len(heap)
    tree,         \* BoardAnalysis `tree`: reference of the node the cursor is on
    chess,        \* position held by `chess`, the Chess instance of the current render
    editingMode,  \* BoardAnalysis `editingMode`
    storage,      \* sessionStorage[id + "-tree"]: [pgn, currentMove]
    onReject,     \* what chess.move of the installed chess.js does with a rejected move
    last,         \* the handler that ran last and the error it raised
    gameState,    \* BoardGame `gameState`: "settingUp", "playing" or "gameOver"
    players,      \* BoardGame `players`: the kind of player of each colour
    root,         \* TreeState `root` of the game tab: the moves of its only line
    gamePosition, \* TreeState `position`: how many moves deep the cursor is
    pending,      \* getSingleBestMove calls that have not answered yet (a bag)
    result,       \* completeGame.game.result of the analysis tab's session entry
    files,        \* the entries of the puzzles directory, as readDir lists them
    puzzles       \* the last getPuzzleDatabases call: how it settled and with what

\* the state of the game tab
gameVars == <<gameState, players, root, gamePosition, pending>>

\* the state of the puzzles page
puzzleVars == <<files, puzzles>>

vars == <<heap, tree, chess, editingMode, storage, onReject, last,
          gameState, players, root, gamePosition, pending, result, files, puzzles>>

-----------------------------------------------------------------------------
(* Bounds of the model *)

\* VariationTree objects that may be allocated in one session
MaxNodes == 3

\* longest move list handed to makeMoves
MaxMoves == 2

\* longest movetext, in tokens, found in the session storage at a page load
MaxTokens == 7

\* plies after which a game is over
MaxPlies == 2

\* engine requests that may be outstanding at a time
MaxPending == 2

\* entries the puzzles directory may hold
MaxFiles == 2

-----------------------------------------------------------------------------
(* The rules oracle (chess.js), abstracted: a position is the sequence of  *)
(* plies that led to it, so that applying a move always gives a position   *)
(* different from the one it was applied to.                               *)

null == 0

DEFAULT_POSITION == <<>>

\* move descriptors a caller may pass; "a_" is a second spelling of the move
\* "a" (sloppy notation), "Qh5" is a move the oracle knows in no position
MoveInputs == {"a", "a_", "b", "Qh5"}

\* the moves the oracle knows; "c" and "d" are played by movetext only
KnownMoves == {"a", "b", "c", "d"}

\* the canonical (SAN) name of the move a descriptor denotes
San(m) == IF m = "a_" THEN "a" ELSE m

\* chess.turn(): white moves first, the sides alternate
turn(pos) == IF Len(pos) % 2 = 0 THEN "w" ELSE "b"

\* chess.isCheckmate(): the move "d" mates
isCheckmate(pos) == IF pos = <<>> THEN FALSE ELSE pos[Len(pos)] = "d"

\* chess.move accepts m in position pos: the side to move is not mated and the
\* same piece is not moved twice in a row
Legal(pos, m) ==
    /\ San(m) \in KnownMoves
    /\ ~isCheckmate(pos)
    /\ (IF pos = <<>> THEN TRUE ELSE pos[Len(pos)] # San(m))

\* chess.fen() after an accepted chess.move(m)
Apply(pos, m) == Append(pos, San(m))

\* chess.fen() after the editing-mode piece shuffle remove / remove / put
EditFen(pos, m) == Append(pos, "edit")

\* what chess.move does with a move it rejects: it returns null in some
\* releases of chess.js and throws in others; one session runs one of them
RejectOutcomes == {"null", "throw"}

\* positions the FEN form may submit
FenInputs == {DEFAULT_POSITION, <<"setup">>}

-----------------------------------------------------------------------------
(* VariationTree objects *)

VariationTree(parent, fen, move) ==
    [parent |-> parent, fen |-> fen, move |-> move, children |-> <<>>]

\* index of reference n in the sequence s (Array.indexOf), -1 when absent
RECURSIVE IndexFrom(_, _, _)
IndexFrom(s, n, i) ==
    IF i > Len(s) THEN -1
    ELSE IF s[i] = n THEN i - 1
    ELSE IndexFrom(s, n, i + 1)

indexOf(s, n) == IndexFrom(s, n, 1)

RECURSIVE getTopVariation(_, _)
getTopVariation(h, n) ==
    IF h[n].parent = null THEN n ELSE getTopVariation(h, h[n].parent)

RECURSIVE getBottomVariation(_, _)
getBottomVariation(h, n) ==
    IF Len(h[n].children) = 0 THEN n ELSE getBottomVariation(h, h[n].children[1])

\* the address of n: child indices from the root, 0-based
RECURSIVE getPosition(_, _)
getPosition(h, n) ==
    IF h[n].parent = null THEN <<>>
    ELSE Append(getPosition(h, h[n].parent),
                indexOf(h[h[n].parent].children, n))

\* follow an address from node n; ok is FALSE when an index is out of bounds
RECURSIVE FollowAddress(_, _, _)
FollowAddress(h, n, position) ==
    IF Len(position) = 0 THEN [ok |-> TRUE, node |-> n]
    ELSE IF position[1] < 0 \/ position[1] >= Len(h[n].children)
         THEN [ok |-> FALSE, node |-> n]
    ELSE FollowAddress(h, h[n].children[position[1] + 1], Tail(position))

\* the node at the address, or the node the walk started from when the
\* address is out of range
goToPosition(h, n, position) ==
    IF FollowAddress(h, n, position).ok
    THEN FollowAddress(h, n, position).node
    ELSE n

-----------------------------------------------------------------------------
(* The handlers of BoardAnalysis as functions of the state they read.  A   *)
(* result is [heap, tree, chess, err, set]: `set` tells whether setTree    *)
(* was called, `err` the exception that left the handler.                  *)

noMove == "null"

Result(h, t, c, err, set) ==
    [heap |-> h, tree |-> t, chess |-> c, err |-> err, set |-> set]

\* children.every((child) => child.fen !== fen)
NoChildAt(h, kids, fen) == \A i \in 1..Len(kids) : h[kids[i]].fen # fen

\* a find that returns children[0] whatever the position asked for
FindChild_First(h, kids, fen) == kids[1]

\* children.find((child) => child.fen === fen)
FindChild(h, kids, fen) ==
    kids[CHOOSE i \in 1..Len(kids) :
            /\ h[kids[i]].fen = fen
            /\ \A j \in 1..(i - 1) : h[kids[j]].fen # fen]

\* a push that puts the new node in front of its siblings (unshift)
PushChild_Front(h, parent, node) ==
    Append([h EXCEPT ![parent].children = <<Len(h) + 1>> \o @], node)

\* heap after `parent.children = [n]` or `parent.children.push(n)` for the
\* freshly constructed node n
PushChild(h, parent, node) ==
    Append([h EXCEPT ![parent].children = Append(@, Len(h) + 1)], node)

\* a makeMove without the reuse branch: every move pushes a new child
AttachOrReuse_AlwaysPush(h, t, fen, move) ==
    Result(PushChild(h, t, VariationTree(t, fen, move)), Len(h) + 1, fen, "none", TRUE)

\* a makeMove that builds the new node as the editing branch does, without
\* a parent, and still lists it as a child of the cursor
AttachOrReuse_NullParent(h, t, fen, move) ==
    IF NoChildAt(h, h[t].children, fen)
    THEN Result(PushChild(h, t, VariationTree(null, fen, move)), Len(h) + 1, fen, "none", TRUE)
    ELSE Result(h, FindChild(h, h[t].children, fen), fen, "none", TRUE)

\* the three branches of makeMove after chess.move: attach a new child of the
\* cursor, or step onto the child that already has the position
AttachOrReuse(h, t, fen, move) ==
    LET newTree == VariationTree(t, fen, move)
        kids == h[t].children
    IN  IF Len(kids) = 0
        THEN Result(PushChild(h, t, newTree), Len(h) + 1, fen, "none", TRUE)
        ELSE IF NoChildAt(h, kids, fen)
        THEN Result(PushChild(h, t, newTree), Len(h) + 1, fen, "none", TRUE)
        ELSE Result(h, FindChild(h, kids, fen), fen, "none", TRUE)

makeMoveResult(h, t, c, editing, move, outcome) ==
    IF editing
    THEN Result(Append(h, VariationTree(null, EditFen(c, move), noMove)),
                Len(h) + 1, EditFen(c, move), "none", TRUE)
    ELSE IF Legal(c, move)
    THEN AttachOrReuse(h, t, Apply(c, move), San(move))
    ELSE IF outcome = "throw"
    THEN Result(h, t, c, "IllegalMove", FALSE)
    ELSE AttachOrReuse(h, t, c, noMove)

\* a forEach callback that forgets `parentTree = newTree` after attaching the
\* new node: every new node becomes a child of the node the loop started from
forEachBody_NoAdvance(st, move, outcome) ==
    IF ~Legal(st.chess, move) /\ outcome = "throw"
    THEN [st EXCEPT !.err = "IllegalMove"]
    ELSE
    LET fen == IF Legal(st.chess, move) THEN Apply(st.chess, move) ELSE st.chess
        newMove == IF Legal(st.chess, move) THEN San(move) ELSE noMove
        newTree == VariationTree(st.parentTree, fen, newMove)
        kids == st.heap[st.parentTree].children
        ref == Len(st.heap) + 1
    IN  IF Len(kids) = 0 \/ NoChildAt(st.heap, kids, fen)
        THEN [st EXCEPT !.heap = PushChild(st.heap, st.parentTree, newTree),
                        !.newTree = ref, !.detached = FALSE, !.chess = fen]
        ELSE [st EXCEPT !.parentTree = FindChild(st.heap, kids, fen),
                        !.fresh = newTree, !.detached = TRUE, !.chess = fen]

\* one iteration of the forEach of makeMoves.  st is [heap, parentTree,
\* newTree, fresh, detached, chess, err]: newTree is the reference held by the
\* local `newTree` when it is in a children list (or is the cursor the loop
\* started from), and `fresh` is the object it holds when detached is TRUE
forEachBody(st, move, outcome) ==
    IF ~Legal(st.chess, move) /\ outcome = "throw"
    THEN [st EXCEPT !.err = "IllegalMove"]
    ELSE
    LET fen == IF Legal(st.chess, move) THEN Apply(st.chess, move) ELSE st.chess
        newMove == IF Legal(st.chess, move) THEN San(move) ELSE noMove
        newTree == VariationTree(st.parentTree, fen, newMove)
        kids == st.heap[st.parentTree].children
        ref == Len(st.heap) + 1
    IN  IF Len(kids) = 0
        THEN [st EXCEPT !.heap = PushChild(st.heap, st.parentTree, newTree),
                        !.parentTree = ref, !.newTree = ref,
                        !.detached = FALSE, !.chess = fen]
        ELSE IF NoChildAt(st.heap, kids, fen)
        THEN [st EXCEPT !.heap = PushChild(st.heap, st.parentTree, newTree),
                        !.parentTree = ref, !.newTree = ref,
                        !.detached = FALSE, !.chess = fen]
        ELSE [st EXCEPT !.parentTree = FindChild(st.heap, kids, fen),
                        !.fresh = newTree, !.detached = TRUE, !.chess = fen]

RECURSIVE forEachMove(_, _, _, _)
forEachMove(st, moves, i, outcome) ==
    IF i > Len(moves) \/ st.err # "none" THEN st
    ELSE forEachMove(forEachBody(st, moves[i], outcome), moves, i + 1, outcome)

makeMovesResult(h, t, c, moves, outcome) ==
    LET st == forEachMove([heap |-> h, parentTree |-> t, newTree |-> t,
                           fresh |-> VariationTree(null, c, noMove),
                           detached |-> FALSE, chess |-> c, err |-> "none"],
                          moves, 1, outcome)
    IN  IF st.err # "none"
        THEN Result(st.heap, t, st.chess, st.err, FALSE)
        ELSE IF st.detached
        THEN Result(Append(st.heap, st.fresh), Len(st.heap) + 1, st.chess, "none", TRUE)
        ELSE Result(st.heap, st.newTree, st.chess, "none", TRUE)

\* a render builds `new Chess(tree.fen)`; setTree with the reference the
\* state already holds renders nothing
Rendered(h, t, c, next) == IF next = t THEN c ELSE h[next].fen

\* an undoMove that takes the move back: the node left is removed from its
\* parent's children
undoMoveResult_TakeBack(h, t, c) ==
    IF h[t].parent # null
    THEN Result([h EXCEPT ![h[t].parent].children = SelectSeq(@, LAMBDA k : k # t)],
                h[t].parent, Rendered(h, t, c, h[t].parent), "none", TRUE)
    ELSE Result(h, t, c, "none", FALSE)

undoMoveResult(h, t, c) ==
    IF h[t].parent # null
    THEN Result(h, h[t].parent, Rendered(h, t, c, h[t].parent), "none", TRUE)
    ELSE Result(h, t, c, "none", FALSE)

\* a redoMove that steps onto the newest child instead of the first
redoMoveResult_LastChild(h, t, c) ==
    IF Len(h[t].children) > 0
    THEN Result(h, h[t].children[Len(h[t].children)],
                Rendered(h, t, c, h[t].children[Len(h[t].children)]), "none", TRUE)
    ELSE Result(h, t, c, "none", FALSE)

\* a redoMove that wraps around: on a leaf it goes back to the start
redoMoveResult_Wrap(h, t, c) ==
    IF Len(h[t].children) > 0
    THEN Result(h, h[t].children[1], Rendered(h, t, c, h[t].children[1]), "none", TRUE)
    ELSE Result(h, getTopVariation(h, t), Rendered(h, t, c, getTopVariation(h, t)), "none", TRUE)

redoMoveResult(h, t, c) ==
    IF Len(h[t].children) > 0
    THEN Result(h, h[t].children[1], Rendered(h, t, c, h[t].children[1]), "none", TRUE)
    ELSE Result(h, t, c, "none", FALSE)

\* a goToStart that goes to the root the session started with
goToStartResult_FirstRoot(h, t, c) ==
    Result(h, 1, Rendered(h, t, c, 1), "none", TRUE)

goToStartResult(h, t, c) ==
    Result(h, getTopVariation(h, t), Rendered(h, t, c, getTopVariation(h, t)), "none", TRUE)

goToEndResult(h, t, c) ==
    Result(h, getBottomVariation(h, t), Rendered(h, t, c, getBottomVariation(h, t)), "none", TRUE)

\* a resetToFen that hangs the new node under the cursor it replaces
resetToFenResult_KeepParent(h, t, c, fen) ==
    Result(Append(h, VariationTree(t, fen, noMove)), Len(h) + 1, fen, "none", TRUE)

resetToFenResult(h, t, c, fen) ==
    Result(Append(h, VariationTree(null, fen, noMove)), Len(h) + 1, fen, "none", TRUE)

\* the nodes treeIteratorMainLine yields for the tree below n: n, its first
\* child, the first child of that one, and so on down to a leaf
RECURSIVE treeIteratorMainLine(_, _)
treeIteratorMainLine(h, n) ==
    IF Len(h[n].children) = 0 THEN <<n>>
    ELSE <<n>> \o treeIteratorMainLine(h, h[n].children[1])

-----------------------------------------------------------------------------
(* The notation codec.  Movetext is a sequence of tokens: the SAN name of  *)
(* a move, "(" and ")" around a variation.                                 *)

\* movetext of everything below node n: the first child's move, the other
\* children as bracketed variations, then the continuation of the first child
RECURSIVE getPGN(_, _)
RECURSIVE VariationsPGN(_, _, _)
getPGN(h, n) ==
    LET kids == h[n].children
    IN  IF Len(kids) = 0 THEN <<>>
        ELSE <<h[kids[1]].move>> \o VariationsPGN(h, kids, 2) \o getPGN(h, kids[1])

VariationsPGN(h, kids, i) ==
    IF i > Len(kids) THEN <<>>
    ELSE <<"(", h[kids[i]].move>> \o getPGN(h, kids[i]) \o <<")">>
         \o VariationsPGN(h, kids, i + 1)

\* one token of the parse.  ps is [heap, cur, stack, err]; a move token adds a
\* fresh child of cur, "(" steps back to the node the last move was played
\* from and remembers cur, ")" returns to the remembered node
ParseToken(ps, tok) ==
    IF tok = "("
    THEN IF ps.heap[ps.cur].parent = null
         THEN [ps EXCEPT !.err = "ParseError"]
         ELSE [ps EXCEPT !.stack = <<ps.cur>> \o @,
                         !.cur = ps.heap[ps.cur].parent]
    ELSE IF tok = ")"
    THEN IF Len(ps.stack) = 0
         THEN [ps EXCEPT !.err = "ParseError"]
         ELSE [ps EXCEPT !.cur = ps.stack[1], !.stack = Tail(@)]
    ELSE IF Legal(ps.heap[ps.cur].fen, tok)
    THEN [ps EXCEPT !.heap = PushChild(ps.heap, ps.cur,
                                 VariationTree(ps.cur, Apply(ps.heap[ps.cur].fen, tok), San(tok))),
                    !.cur = Len(ps.heap) + 1]
    ELSE [ps EXCEPT !.err = "ParseError"]

RECURSIVE ParseTokens(_, _, _)
ParseTokens(ps, pgn, i) ==
    IF i > Len(pgn) \/ ps.err # "none" THEN ps
    ELSE ParseTokens(ParseToken(ps, pgn[i]), pgn, i + 1)

\* the parse of a whole movetext, from the standard start position
ParseAll(pgn) ==
    ParseTokens([heap |-> <<VariationTree(null, DEFAULT_POSITION, noMove)>>,
                 cur |-> 1, stack |-> <<>>, err |-> "none"], pgn, 1)

\* the heap of the parsed tree; its root is reference 1.  A token the parse
\* stops at leaves the tree built so far
parsePGN(pgn) == ParseAll(pgn).heap

-----------------------------------------------------------------------------
(* Session storage *)

\* the default `moves: ""` of the game record
gameMoves == <<>>

serialize(h, value) ==
    [pgn |-> getPGN(h, getTopVariation(h, value)),
     currentMove |-> getPosition(h, value)]

\* an initial_tree that never reads the stored movetext and parses the moves
\* of the game record
initial_tree_GameMoves(stored) ==
    [heap |-> parsePGN(gameMoves), tree |-> 1, err |-> "none"]

\* an initial_tree that keeps the node the walk along the stored address
\* stopped at
initial_tree_Partial(stored) ==
    IF stored.pgn # <<>>
    THEN [heap |-> parsePGN(stored.pgn),
          tree |-> FollowAddress(parsePGN(stored.pgn), 1, stored.currentMove).node,
          err |-> "none"]
    ELSE [heap |-> parsePGN(gameMoves), tree |-> 1, err |-> "none"]

\* initial_tree: the tree and the cursor a mount of the component starts
\* with; err tells whether the stored address was out of range for the tree
initial_tree(stored) ==
    IF stored.pgn # <<>>
    THEN LET parsed == parsePGN(stored.pgn)
         IN  [heap |-> parsed,
              tree |-> goToPosition(parsed, 1, stored.currentMove),
              err |-> IF FollowAddress(parsed, 1, stored.currentMove).ok
                      THEN "none" ELSE "OutOfRange"]
    ELSE [heap |-> parsePGN(gameMoves), tree |-> 1, err |-> "none"]

afterSetTree(r, old) == IF r.set THEN serialize(r.heap, r.tree) ELSE old

-----------------------------------------------------------------------------
(* The state machine *)

MoveLists == UNION {[1..n -> MoveInputs] : n \in 0..MaxMoves}

\* addresses go_to_address may be handed: a node has at most three children
\* here (one per move of the oracle, one for a rejected move), -1 is the index
\* of a node that is in no children list
AddressIndices == -1..2

Addresses == UNION {[1..n -> AddressIndices] : n \in 0..2}

\* the values of Result; a session entry written with BoardAnalysis's
\* defaultValue has no result field
Unknown == "*"

WhiteWin == "1-0"

BlackWin == "0-1"

Draw == "1/2-1/2"

NoResult == "undefined"

\* a BoardPlay that writes the result at every mate it is shown
BoardPlay_Overwrite(res, fen) ==
    IF isCheckmate(fen)
    THEN IF turn(fen) = "w" THEN BlackWin ELSE WhiteWin
    ELSE res

\* the result after BoardPlay has rendered the position fen of the cursor
BoardPlay(res, fen) ==
    IF isCheckmate(fen) /\ res = Unknown
    THEN IF turn(fen) = "w" THEN BlackWin ELSE WhiteWin
    ELSE res

\* getPuzzleDatabases has not been called
NoCall == [status |-> "none", outcomes |-> <<>>, dbs |-> <<>>]

\* no game tab is open beside the analysis board, and the puzzles page has
\* not been opened
NoGame ==
    /\ files = <<>>
    /\ puzzles = NoCall
    /\ gameState = "settingUp"
    /\ players = [white |-> "human", black |-> "human"]
    /\ root = <<>>
    /\ gamePosition = 0
    /\ pending = EmptyBag

Init ==
    /\ heap = initial_tree([pgn |-> <<>>, currentMove |-> <<>>]).heap
    /\ tree = 1
    /\ chess = DEFAULT_POSITION
    /\ editingMode = FALSE
    /\ storage = serialize(heap, tree)
    /\ onReject \in RejectOutcomes
    /\ last = [op |-> "mount", err |-> "none"]
    /\ result = NoResult
    /\ NoGame

\* the state after a handler that returned r
Commit(r, op) ==
    /\ Len(r.heap) <= MaxNodes
    /\ result' = BoardPlay(result, r.heap[r.tree].fen)
    /\ heap' = r.heap
    /\ tree' = r.tree
    /\ chess' = r.chess
    /\ storage' = afterSetTree(r, storage)
    /\ last' = [op |-> op, err |-> r.err]
    /\ UNCHANGED <<editingMode, onReject, gameVars, puzzleVars>>

makeMoveStep(move) ==
    Commit(makeMoveResult(heap, tree, chess, editingMode, move, onReject), "makeMove")

makeMove == \E move \in MoveInputs : makeMoveStep(move)

makeMovesStep(moves) ==
    Commit(makeMovesResult(heap, tree, chess, moves, onReject), "makeMoves")

makeMoves == \E moves \in MoveLists : makeMovesStep(moves)

undoMove == Commit(undoMoveResult(heap, tree, chess), "undoMove")

redoMove == Commit(redoMoveResult(heap, tree, chess), "redoMove")

goToStart == Commit(goToStartResult(heap, tree, chess), "goToStart")

goToEnd == Commit(goToEndResult(heap, tree, chess), "goToEnd")

resetToFenStep(fen) ==
    Commit(resetToFenResult(heap, tree, chess, fen), "resetToFen")

resetToFen == \E fen \in FenInputs : resetToFenStep(fen)

\* go_to_address of the tree the cursor is in
goToAddressResult(h, t, c, address) ==
    IF FollowAddress(h, getTopVariation(h, t), address).ok
    THEN Result(h, goToPosition(h, getTopVariation(h, t), address),
                Rendered(h, t, c, goToPosition(h, getTopVariation(h, t), address)),
                "none", TRUE)
    ELSE Result(h, t, c, "OutOfRange", FALSE)

goToAddressStep(address) ==
    Commit(goToAddressResult(heap, tree, chess, address), "goToAddress")

goToAddress == \E address \in Addresses : goToAddressStep(address)

\* the toggle re-renders the component, which builds a new Chess from tree.fen
toggleEditingMode ==
    /\ editingMode' = ~editingMode
    /\ chess' = heap[tree].fen
    /\ last' = [op |-> "toggleEditingMode", err |-> "none"]
    /\ result' = BoardPlay(result, heap[tree].fen)
    /\ UNCHANGED <<heap, tree, storage, onReject, gameVars, puzzleVars>>

\* the page is loaded again: the heap is gone, the component mounts from the
\* stored entry and writes the tree it mounted with back to the storage
reload ==
    LET mounted == initial_tree(storage)
    IN  /\ heap' = mounted.heap
        /\ tree' = mounted.tree
        /\ chess' = heap'[tree'].fen
        /\ editingMode' = FALSE
        /\ storage' = serialize(heap', tree')
        /\ last' = [op |-> "reload", err |-> mounted.err]
        /\ result' = BoardPlay(result, mounted.heap[mounted.tree].fen)
        /\ UNCHANGED <<onReject, gameVars, puzzleVars>>

Next ==
    \/ makeMove
    \/ makeMoves
    \/ undoMove
    \/ redoMove
    \/ goToStart
    \/ goToEnd
    \/ goToAddress
    \/ resetToFen
    \/ toggleEditingMode
    \/ reload

Spec == Init /\ [][Next]_vars

\* the tokens of a movetext
Tokens == KnownMoves \cup {"(", ")"}

\* the session storage is outside the component: before the page is loaded
\* the entry may be written from outside, here one token at a time, up to
\* MaxTokens tokens.  Text behind a token that stops the parse is never read
\* and is not written
editStorage ==
    /\ last.op \in {"stored", "editStorage"}
    /\ Len(storage.pgn) < MaxTokens
    /\ ParseAll(storage.pgn).err = "none"
    /\ \E tok \in Tokens :
          storage' = [pgn |-> Append(storage.pgn, tok), currentMove |-> <<>>]
    /\ last' = [op |-> "editStorage", err |-> "none"]
    /\ UNCHANGED <<heap, tree, chess, editingMode, onReject, gameVars, result, puzzleVars>>

\* a browser session whose page has not been loaded yet.  Writing the entry
\* and loading the page never call chess.move of the component, so what the
\* installed release does with a rejected move plays no part
InitStored ==
    /\ storage = [pgn |-> <<>>, currentMove |-> <<>>]
    /\ heap = <<VariationTree(null, DEFAULT_POSITION, noMove)>>
    /\ tree = 1
    /\ chess = DEFAULT_POSITION
    /\ editingMode = FALSE
    /\ onReject = "throw"
    /\ last = [op |-> "stored", err |-> "none"]
    /\ result = NoResult
    /\ NoGame

NextParse ==
    \/ editStorage
    \/ reload

SpecParse == InitStored /\ [][NextParse]_vars

\* the handlers of the mounted component alone: no page load, no jump by address
TreeOps ==
    \/ makeMove
    \/ makeMoves
    \/ undoMove
    \/ redoMove
    \/ goToStart
    \/ goToEnd
    \/ resetToFen
    \/ toggleEditingMode

SpecTreeOps == Init /\ [][TreeOps]_vars

-----------------------------------------------------------------------------
(* The analysis board of a game that can end in mate: the tab's session    *)
(* entry may have been written before the board mounts, with a result or   *)
(* without one, and the moves played on the board include the mating move. *)

\* what completeGame.game.result may hold when the board mounts; BlackWin is
\* written by BoardPlay only
StoredResults == {NoResult, Unknown, WhiteWin, Draw}

\* the moves played on the board
PlayInputs == {"a", "b", "d"}

playMove == \E move \in PlayInputs : makeMoveStep(move)

InitPlay ==
    /\ heap = initial_tree([pgn |-> <<>>, currentMove |-> <<>>]).heap
    /\ tree = 1
    /\ chess = DEFAULT_POSITION
    /\ editingMode = FALSE
    /\ storage = serialize(heap, tree)
    /\ onReject \in RejectOutcomes
    /\ last = [op |-> "mount", err |-> "none"]
    /\ result \in StoredResults
    /\ NoGame

NextPlay ==
    \/ playMove
    \/ undoMove
    \/ redoMove
    \/ goToStart
    \/ goToEnd
    \/ resetToFen
    \/ reload

SpecPlay == InitPlay /\ [][NextPlay]_vars

-----------------------------------------------------------------------------
(* BoardGame: a game against an engine.  The tree of the game tab has one  *)
(* line (the board is mounted with disableVariations), so `root` is the    *)
(* sequence of the moves played and the position at the end of the main    *)
(* line is that sequence.                                                  *)

\* the side whose piece a move moves: a and c are moves of white pieces, b
\* and d of black pieces
SideOf(m) ==
    IF m \in {"a", "c"} THEN "w" ELSE IF m \in {"b", "d"} THEN "b" ELSE "-"

\* chess.isGameOver()
isGameOver(pos) == isCheckmate(pos) \/ Len(pos) >= MaxPlies

\* chess.move accepts m in a game: the rules of Legal, the piece belongs to
\* the side to move, and the game is not over
LegalInGame(pos, m) ==
    /\ Legal(pos, m)
    /\ SideOf(San(m)) = turn(pos)
    /\ ~isGameOver(pos)

\* OpponentSettings: a human, an engine, or the engine type with no engine
\* selected (engine: null)
PlayerKinds == {"human", "engine", "engineUnset"}

\* const player = currentTurn === "w" ? players.white : players.black
playerToMove(pl, pos) == IF turn(pos) = "w" THEN pl.white ELSE pl.black

\* what getSingleBestMove may answer for a position: a move the rules accept
\* there, or "none" when there is no such move
BestMoves(fen) ==
    IF {m \in KnownMoves : LegalInGame(fen, m)} = {} THEN {"none"}
    ELSE {m \in KnownMoves : LegalInGame(fen, m)}

\* an APPEND_MOVE that plays whatever move it is handed
appendMove_Unchecked(r, move) == Append(r, move)

\* APPEND_MOVE: the spec's make_move from the node at the end of the main
\* line; a move the rules reject leaves the tree as it is
appendMove(r, move) ==
    IF LegalInGame(r, move) THEN Append(r, move) ELSE r

\* the request the engine-move effect issues when it runs in state gs, pl,
\* r: a bag with one request, or none.  A request carries the position sent
\* to the engine; its then-callback captures nothing but dispatch
engineMoveEffect(gs, pl, r) ==
    IF gs = "playing" /\ playerToMove(pl, r) = "engine"
    THEN SetToBag({[fen |-> r]})
    ELSE EmptyBag

\* the game-over effect, which runs when lastNode.fen has changed
gameOverEffect(gs, r) ==
    IF r # root /\ isGameOver(r) THEN "gameOver" ELSE gs

\* the render after a handler that left the state gs, pl, r, pos and the
\* outstanding requests out; newPlayers tells whether setPlayers was called.
\* The effects whose dependencies changed run with the values of that
\* render; a game-over effect that sets the state renders once more, and the
\* engine-move effect then runs with "gameOver" and issues nothing
Render(gs, pl, r, pos, out, newPlayers, op, err) ==
    LET changed == pos # gamePosition \/ gs # gameState \/ r # root \/ newPlayers
        issued == IF changed THEN engineMoveEffect(gs, pl, r) ELSE EmptyBag
    IN  /\ BagCardinality(out (+) issued) <= MaxPending
        /\ gameState' = gameOverEffect(gs, r)
        /\ players' = pl
        /\ root' = r
        /\ gamePosition' = pos
        /\ pending' = out (+) issued
        /\ last' = [op |-> op, err |-> err]
        /\ UNCHANGED <<heap, tree, chess, editingMode, storage, onReject, result, puzzleVars>>

\* the Start game button
startGameStep(white, black) ==
    /\ gameState = "settingUp"
    /\ Render("playing", [white |-> white, black |-> black], root, gamePosition,
              pending, TRUE, "startGame", "none")

startGame == \E white, black \in PlayerKinds : startGameStep(white, black)

\* the New Game button: SET_FEN with the standard start position
newGame ==
    /\ gameState \in {"playing", "gameOver"}
    /\ Render("settingUp", players, DEFAULT_POSITION, 0, pending, FALSE, "newGame", "none")

\* a move on the board: the board takes moves while the game is played
\* (viewOnly), with the cursor at the end of the line (disableVariations),
\* for the pieces of a human player (movable)
humanMoveStep(move) ==
    /\ gameState = "playing"
    /\ gamePosition = Len(root)
    /\ playerToMove(players, root) = "human"
    /\ LegalInGame(root, move)
    /\ Render(gameState, players, Apply(root, move), Len(root) + 1, pending, FALSE,
              "humanMove", "none")

humanMove == \E move \in KnownMoves : humanMoveStep(move)

\* MoveControls: the cursor goes to another node of the line
navigateStep(pos) ==
    /\ pos # gamePosition
    /\ Render(gameState, players, root, pos, pending, FALSE, "navigate", "none")

navigate == \E pos \in 0..Len(root) : navigateStep(pos)

\* a getSingleBestMove call answers: the then-callback dispatches APPEND_MOVE
engineReplyStep(request, move) ==
    /\ BagIn(request, pending)
    /\ move \in BestMoves(request.fen)
    /\ Render(gameState, players, appendMove(root, move),
              IF appendMove(root, move) = root THEN gamePosition
              ELSE Len(appendMove(root, move)),
              pending (-) SetToBag({request}), FALSE, "engineReply",
              IF appendMove(root, move) = root THEN "IllegalMove" ELSE "none")

engineReply ==
    \E request \in BagToSet(pending) :
        \E move \in BestMoves(request.fen) : engineReplyStep(request, move)

InitGame ==
    /\ heap = <<VariationTree(null, DEFAULT_POSITION, noMove)>>
    /\ tree = 1
    /\ chess = DEFAULT_POSITION
    /\ editingMode = FALSE
    /\ storage = [pgn |-> <<>>, currentMove |-> <<>>]
    /\ onReject = "throw"
    /\ last = [op |-> "mount", err |-> "none"]
    /\ result = NoResult
    /\ NoGame

NextGame ==
    \/ startGame
    \/ newGame
    \/ humanMove
    \/ navigate
    \/ engineReply

SpecGame == InitGame /\ [][NextGame]_vars

\* every getSingleBestMove call that was issued answers
SpecGameFair == SpecGame /\ WF_vars(engineReply)

-----------------------------------------------------------------------------
(* The puzzle databases: getPuzzleDatabases lists the puzzles directory    *)
(* and asks the backend for the info of every ".db3" file.  A file name is *)
(* the sequence of its parts: <<"a", ".db3">> is the file "a.db3".         *)

\* FileEntry.name is optional
NoName == <<>>

FileNames == {<<"a", ".db3">>, <<"a", ".db3", ".bak">>, <<"notes", ".txt">>, NoName}

\* String.prototype.endsWith
endsWith(name, suffix) ==
    /\ Len(name) >= Len(suffix)
    /\ SubSeq(name, Len(name) - Len(suffix) + 1, Len(name)) = suffix

\* the PuzzleDatabase the backend answers for a path
PuzzleDatabase(path) == [path |-> path]

\* the null a failed load is turned into
nullDatabase == [path |-> 0]

\* how invoke("get_puzzle_db_info") settles
LoadOutcomes == {"ok", "fail"}

\* getPuzzleDatabase(path): the promise's value, or its rejection
getPuzzleDatabase(path, outcome) ==
    IF outcome = "ok" THEN [settled |-> "resolved", value |-> PuzzleDatabase(path)]
    ELSE [settled |-> "rejected", value |-> nullDatabase]

\* a getPuzzleDatabases without the catch on each load: Promise.all rejects as
\* soon as one load does
getPuzzleDatabasesResult_NoCatch(fs, outcomes, readOk) ==
    LET dbs == SelectSeq(fs, LAMBDA file : file.name # NoName /\ endsWith(file.name, <<".db3">>))
        loads == [i \in 1..Len(dbs) |-> getPuzzleDatabase(dbs[i].path, outcomes[dbs[i].path])]
    IN  IF ~readOk \/ \E i \in 1..Len(dbs) : loads[i].settled = "rejected"
        THEN [status |-> "rejected", outcomes |-> outcomes, dbs |-> <<>>]
        ELSE [status |-> "resolved", outcomes |-> outcomes,
              dbs |-> [i \in 1..Len(dbs) |-> loads[i].value]]

\* getPuzzleDatabases(): readDir, filter on the name, load each with
\* .catch(() => null), Promise.all, filter the nulls out
getPuzzleDatabasesResult(fs, outcomes, readOk) ==
    LET dbs == SelectSeq(fs, LAMBDA file : file.name # NoName /\ endsWith(file.name, <<".db3">>))
        loads == [i \in 1..Len(dbs) |-> getPuzzleDatabase(dbs[i].path, outcomes[dbs[i].path])]
        caught == [i \in 1..Len(dbs) |->
                     IF loads[i].settled = "rejected" THEN nullDatabase ELSE loads[i].value]
    IN  IF ~readOk
        THEN [status |-> "rejected", outcomes |-> outcomes, dbs |-> <<>>]
        ELSE [status |-> "resolved", outcomes |-> outcomes,
              dbs |-> SelectSeq(caught, LAMBDA db : db # nullDatabase)]

\* a file appears in the puzzles directory
addFile ==
    /\ Len(files) < MaxFiles
    /\ \E name \in FileNames :
          files' = Append(files, [path |-> Len(files) + 1, name |-> name])
    /\ last' = [op |-> "addFile", err |-> "none"]
    /\ UNCHANGED <<heap, tree, chess, editingMode, storage, onReject, gameVars,
                   result, puzzles>>

\* the last file of the listing is deleted
removeFile ==
    /\ Len(files) > 0
    /\ files' = SubSeq(files, 1, Len(files) - 1)
    /\ last' = [op |-> "removeFile", err |-> "none"]
    /\ UNCHANGED <<heap, tree, chess, editingMode, storage, onReject, gameVars,
                   result, puzzles>>

\* a call of getPuzzleDatabases settles; readDir fails when the directory
\* cannot be read
getPuzzleDatabasesStep(outcomes, readOk) ==
    /\ puzzles' = getPuzzleDatabasesResult(files, outcomes, readOk)
    /\ last' = [op |-> "getPuzzleDatabases",
                err |-> IF puzzles'.status = "rejected" THEN "rejected" ELSE "none"]
    /\ UNCHANGED <<heap, tree, chess, editingMode, storage, onReject, gameVars,
                   result, files>>

getPuzzleDatabases ==
    \E outcomes \in [1..Len(files) -> LoadOutcomes] : \E readOk \in BOOLEAN :
        getPuzzleDatabasesStep(outcomes, readOk)

NextPuzzles ==
    \/ addFile
    \/ removeFile
    \/ getPuzzleDatabases

\* the application has just started: nothing was listed or loaded yet
InitPuzzles == InitGame

SpecPuzzles == InitPuzzles /\ [][NextPuzzles]_vars

-----------------------------------------------------------------------------
(* Properties *)

Refs == 1..Len(heap)

\* C1: after any sequence of handlers, no node has two children with the
\* same resulting position
C1_NoDuplicateChildren ==
    \A n \in Refs :
        \A i, j \in 1..Len(heap[n].children) :
            i # j => heap[heap[n].children[i]].fen # heap[heap[n].children[j]].fen

\* makeMove has just given a node its second child
C1_Witness ==
    /\ last.op = "makeMove"
    /\ heap[tree].parent # null
    /\ Len(heap[heap[tree].parent].children) = 2
    /\ heap[heap[tree].parent].children[2] = tree
    /\ tree = Len(heap)

\* C2: makeMove with a move the oracle rejects for the cursor's position
\* leaves the heap and the cursor as they were and reports IllegalMove
C2_IllegalMoveLeavesTreeUnchanged ==
    [][\A move \in MoveInputs :
          (/\ ~editingMode
           /\ ~Legal(heap[tree].fen, move)
           /\ makeMoveStep(move))
          => (heap' = heap /\ tree' = tree /\ last'.err = "IllegalMove")]_vars

RECURSIVE FirstIllegal(_, _, _)
FirstIllegal(pos, moves, i) ==
    IF i > Len(moves) THEN 0
    ELSE IF ~Legal(pos, moves[i]) THEN i
    ELSE FirstIllegal(Apply(pos, moves[i]), moves, i + 1)

\* the result of calling makeMove(moves[i]), ..., makeMove(moves[k]) one after
\* the other, outside editing mode, from the state r
RECURSIVE makeMoveEach(_, _, _, _)
makeMoveEach(r, moves, i, k) ==
    IF i > k THEN r
    ELSE makeMoveEach(makeMoveResult(r.heap, r.tree, r.chess, FALSE, moves[i], onReject),
                      moves, i + 1, k)

Here == Result(heap, tree, chess, "none", FALSE)

\* C4: makeMoves stops at the first move the oracle rejects and reports it:
\* the nodes of the moves before it are in the tree, nothing is created for
\* it or for a later move, and the cursor is on the node of the last move
\* before it
C4_MakeMovesStopsAtFirstIllegal ==
    [][\A moves \in MoveLists :
          (/\ chess = heap[tree].fen
           /\ FirstIllegal(chess, moves, 1) > 0
           /\ makeMovesStep(moves))
          => (/\ heap' = makeMoveEach(Here, moves, 1, FirstIllegal(chess, moves, 1) - 1).heap
              /\ tree' = makeMoveEach(Here, moves, 1, FirstIllegal(chess, moves, 1) - 1).tree
              /\ last'.err = "IllegalMove")]_vars

\* C5: makeMoves(moves), for moves the oracle accepts, leaves the heap and the
\* cursor as the calls makeMove(moves[1]), ..., makeMove(moves[k]) made one
\* after the other do; a move that replays a child ends on that child
C5_MakeMovesIsRepeatedMakeMove ==
    [][\A moves \in MoveLists :
          (/\ ~editingMode
           /\ chess = heap[tree].fen
           /\ FirstIllegal(chess, moves, 1) = 0
           /\ makeMovesStep(moves))
          => (/\ heap' = makeMoveEach(Here, moves, 1, Len(moves)).heap
              /\ tree' = makeMoveEach(Here, moves, 1, Len(moves)).tree)]_vars

\* n reaches a parentless node in at most `fuel` parent steps
RECURSIVE ReachesRoot(_, _)
ReachesRoot(n, fuel) ==
    IF heap[n].parent = null THEN TRUE
    ELSE IF fuel = 0 THEN FALSE
    ELSE ReachesRoot(heap[n].parent, fuel - 1)

\* the places (p, i) where n is the i-th child of p
PlacesOf(n) ==
    {pi \in Refs \X (1..Len(heap)) :
        pi[2] <= Len(heap[pi[1]].children) /\ heap[pi[1]].children[pi[2]] = n}

\* C6: the heap is a forest: no cycles, every child names the node that lists
\* it as its parent, and every node with a parent, the cursor included, is
\* listed exactly once, by its parent
C6_TreeWellFormed ==
    /\ \A n \in Refs : ReachesRoot(n, Len(heap))
    /\ \A n \in Refs : \A i \in 1..Len(heap[n].children) :
          heap[heap[n].children[i]].parent = n
    /\ \A n \in Refs : heap[n].parent = null => PlacesOf(n) = {}
    /\ \A n \in Refs : heap[n].parent # null =>
          /\ Cardinality(PlacesOf(n)) = 1
          /\ \A pi \in PlacesOf(n) : pi[1] = heap[n].parent

\* the nodes of the tree below n: n and everything listed under it
RECURSIVE SubtreeOf(_, _)
SubtreeOf(h, n) ==
    {n} \cup UNION {SubtreeOf(h, h[n].children[i]) : i \in 1..Len(h[n].children)}

Roots == {r \in Refs : heap[r].parent = null}

\* C7: in every tree of the heap, following the address of a node from the
\* root succeeds and ends on that node, and two nodes have different addresses
C7_AddressStability ==
    \A r \in Roots :
        /\ \A n \in SubtreeOf(heap, r) :
              FollowAddress(heap, r, getPosition(heap, n)) = [ok |-> TRUE, node |-> n]
        /\ \A n, k \in SubtreeOf(heap, r) :
              getPosition(heap, n) = getPosition(heap, k) => n = k

\* go_to_address has put the cursor on the second child of the root
C7_Witness ==
    /\ last.op = "goToAddress"
    /\ last.err = "none"
    /\ getPosition(heap, tree) = <<1>>
    /\ tree \in SubtreeOf(heap, getTopVariation(heap, tree))

\* the trees below n1 in h1 and below n2 in h2 have the same positions at the
\* same addresses: the same number of children everywhere, in the same order
RECURSIVE SameTree(_, _, _, _)
SameTree(h1, n1, h2, n2) ==
    /\ h1[n1].fen = h2[n2].fen
    /\ Len(h1[n1].children) = Len(h2[n2].children)
    /\ \A i \in 1..Len(h1[n1].children) :
          i <= Len(h2[n2].children)
          => SameTree(h1, h1[n1].children[i], h2, h2[n2].children[i])

\* C8: a tree built from the start position by makeMove and makeMoves (the
\* heap has its first root only: no reset, no edit) is the tree its full
\* movetext parses to
C8_RoundTrip ==
    Roots = {1} =>
    SameTree(heap, getTopVariation(heap, tree),
             parsePGN(getPGN(heap, getTopVariation(heap, tree))), 1)

\* C9: a page load puts the cursor where it was: at the same address, on the
\* same position
C9_SessionRestoresCursor ==
    [][last'.op = "reload"
       => (/\ getPosition(heap', tree') = getPosition(heap, tree)
           /\ heap'[tree'].fen = heap[tree].fen)]_vars

IsPrefix(s, t) == Len(s) <= Len(t) /\ \A i \in 1..Len(s) : s[i] = t[i]

\* C12: a step of makeMove or makeMoves keeps every node allocated before it,
\* and the children list a node had before the step is a prefix of the list
\* it has after it; in particular the first child of a node that had children
\* is the same node
C12_ChildrenGrowByAppend ==
    [][last'.op \in {"makeMove", "makeMoves"}
       => \A n \in Refs :
             /\ n <= Len(heap')
             /\ IsPrefix(heap[n].children, heap'[n].children)
             /\ Len(heap[n].children) > 0
                => heap'[n].children[1] = heap[n].children[1]]_vars

\* makeMoves has attached the node of its last move behind an older child
C12_Witness ==
    /\ last.op = "makeMoves"
    /\ last.err = "none"
    /\ heap[tree].parent # null
    /\ Len(heap[heap[tree].parent].children) >= 2
    /\ heap[heap[tree].parent].children[Len(heap[heap[tree].parent].children)] = tree
    /\ heap[tree].move # noMove

\* C13: a node has no move exactly when it has no parent, and the move of a
\* node with a parent is a move the oracle accepts for the parent's position
\* and that gives the node's position
C13_MoveInOnlyAbsentForRoot ==
    \A n \in Refs :
        /\ heap[n].parent = null <=> heap[n].move = noMove
        /\ heap[n].parent # null =>
              \E m \in MoveInputs :
                  /\ Legal(heap[heap[n].parent].fen, m)
                  /\ heap[n].move = San(m)
                  /\ heap[n].fen = Apply(heap[heap[n].parent].fen, m)

\* the nodes the cursor can be moved to from the nodes of S by undoMove,
\* redoMove, goToStart and goToEnd
RECURSIVE NavClosure(_, _)
NavClosure(h, S) ==
    LET T == S \cup {h[n].parent : n \in {k \in S : h[k].parent # null}}
               \cup {h[n].children[1] : n \in {k \in S : Len(h[k].children) > 0}}
               \cup {getTopVariation(h, n) : n \in S}
               \cup {getBottomVariation(h, n) : n \in S}
    IN  IF T = S THEN S ELSE NavClosure(h, T)

\* C14: resetToFen(fen), and makeMove in editing mode, leave the cursor on a
\* node allocated by the call that has no parent, no move and no children and
\* has the position given (fen, or the position the edit gives); the nodes
\* allocated before are as they were, so none of them lists the new node, and
\* the navigation handlers reach no node but the new one
C14_ResetDiscardsTree ==
    [][(last'.op = "resetToFen" \/ (last'.op = "makeMove" /\ editingMode))
       => (/\ tree' = Len(heap) + 1
           /\ Len(heap') = Len(heap) + 1
           /\ \A n \in Refs : heap'[n] = heap[n]
           /\ heap'[tree'].parent = null
           /\ heap'[tree'].move = noMove
           /\ heap'[tree'].children = <<>>
           /\ SubtreeOf(heap', getTopVariation(heap', tree')) = {tree'}
           /\ NavClosure(heap', {tree'}) = {tree'}
           /\ \A fen \in FenInputs :
                 resetToFenStep(fen) => heap'[tree'].fen = fen
           /\ \A move \in MoveInputs :
                 (editingMode /\ makeMoveStep(move))
                 => heap'[tree'].fen = EditFen(chess, move))]_vars

\* a piece was moved in editing mode while the first tree had more nodes than
\* its root
C14_Witness ==
    /\ last.op = "makeMove"
    /\ editingMode
    /\ tree = Len(heap)
    /\ heap[tree].parent = null
    /\ Len(heap[1].children) > 0

\* the position after moves[i], ..., moves[Len(moves)] played from pos
RECURSIVE ApplyAll(_, _, _)
ApplyAll(pos, moves, i) ==
    IF i > Len(moves) THEN pos
    ELSE ApplyAll(Apply(pos, moves[i]), moves, i + 1)

\* C15: after makeMoves of k moves the oracle accepts, with the cursor on the
\* root of a tree that has no other node, the main line of the tree has k + 1
\* nodes: it starts with that root, each node is followed by its first child,
\* it ends on a leaf that has the position after the k-th move, and it has no
\* more nodes than the heap
C15_MainLineAfterMakeMoves ==
    [][last'.op = "makeMoves" =>
       \A moves \in MoveLists :
          (/\ ~editingMode
           /\ heap[tree].parent = null
           /\ Len(heap[tree].children) = 0
           /\ FirstIllegal(heap[tree].fen, moves, 1) = 0
           /\ makeMovesStep(moves))
          => LET mainLine == treeIteratorMainLine(heap', getTopVariation(heap', tree'))
             IN  /\ Len(mainLine) = Len(moves) + 1
                 /\ Len(mainLine) <= Len(heap')
                 /\ mainLine[1] = tree
                 /\ \A i \in 1..(Len(mainLine) - 1) :
                       /\ Len(heap'[mainLine[i]].children) > 0
                       /\ mainLine[i + 1] = heap'[mainLine[i]].children[1]
                 /\ Len(heap'[mainLine[Len(mainLine)]].children) = 0
                 /\ heap'[mainLine[Len(mainLine)]].fen
                       = ApplyAll(heap[tree].fen, moves, 1)]_vars

\* makeMoves has played two moves from the root of a one-node tree: the main
\* line has three nodes and the cursor is on the last
C15_Witness ==
    /\ last.op = "makeMoves"
    /\ last.err = "none"
    /\ Len(treeIteratorMainLine(heap, getTopVariation(heap, tree))) = 3
    /\ treeIteratorMainLine(heap, getTopVariation(heap, tree))[3] = tree
    /\ SubtreeOf(heap, getTopVariation(heap, tree)) = {getTopVariation(heap, tree),
                                                       heap[tree].parent, tree}

\* the result of calling redoMove from r again and again until a call sets
\* no tree, at most `fuel` times
RECURSIVE RedoUntilFails(_, _)
RedoUntilFails(r, fuel) ==
    LET next == redoMoveResult(r.heap, r.tree, r.chess)
    IN  IF ~next.set \/ fuel = 0 THEN r
        ELSE RedoUntilFails(next, fuel - 1)

\* the elements of the sequence s
Range(s) == {s[i] : i \in 1..Len(s)}

\* C16: redoMove on a node with children moves the cursor to its first child;
\* goToEnd leaves the cursor where repeated redoMove leaves it, on a leaf of
\* the chain of first children that starts at the previous cursor; neither
\* changes the heap
C16_GoToEndIsRepeatedRedo ==
    [][/\ (last'.op = "redoMove" /\ Len(heap[tree].children) > 0)
          => (tree' = heap[tree].children[1] /\ heap' = heap)
       /\ last'.op = "goToEnd"
          => (/\ tree' = RedoUntilFails(Here, Len(heap)).tree
              /\ heap' = heap
              /\ Len(heap[tree'].children) = 0
              /\ tree' \in Range(treeIteratorMainLine(heap, tree)))]_vars

\* goToEnd has left the cursor on a first child that has a younger sibling
C16_Witness ==
    /\ last.op = "goToEnd"
    /\ heap[tree].parent # null
    /\ Len(heap[heap[tree].parent].children) = 2
    /\ heap[heap[tree].parent].children[1] = tree
    /\ Len(heap[tree].children) = 0

\* the result of calling undoMove from r again and again until a call sets
\* no tree, at most `fuel` times
RECURSIVE UndoUntilFails(_, _)
UndoUntilFails(r, fuel) ==
    LET next == undoMoveResult(r.heap, r.tree, r.chess)
    IN  IF ~next.set \/ fuel = 0 THEN r
        ELSE UndoUntilFails(next, fuel - 1)

\* n and the nodes above it
RECURSIVE AncestorsOrSelf(_, _)
AncestorsOrSelf(h, n) ==
    IF h[n].parent = null THEN {n} ELSE {n} \cup AncestorsOrSelf(h, h[n].parent)

\* C17: goToStart leaves the cursor where repeated undoMove leaves it: on the
\* parentless node above the previous cursor, and changes no node.  No
\* handler changes the parent or the position of a node, so that node is the
\* one resetToFen(fen) created, with the position fen, when the cursor's tree
\* was started by resetToFen: goToStart right after resetToFen(fen) is on fen
C17_GoToStartIsRepeatedUndo ==
    [][/\ last'.op = "goToStart"
          => (/\ tree' = UndoUntilFails(Here, Len(heap)).tree
              /\ heap' = heap
              /\ heap[tree'].parent = null
              /\ tree' \in AncestorsOrSelf(heap, tree))
       /\ last'.op # "reload"
          => \A n \in Refs :
                /\ n <= Len(heap')
                /\ heap'[n].parent = heap[n].parent
                /\ heap'[n].fen = heap[n].fen
       /\ \A fen \in FenInputs :
             resetToFenStep(fen)
             => heap'[goToStartResult(heap', tree', chess').tree].fen = fen]_vars

\* goToStart has left the cursor on the root of a tree that resetToFen
\* started on a position other than the standard one and that has grown since
C17_Witness ==
    /\ last.op = "goToStart"
    /\ heap[tree].parent = null
    /\ heap[tree].fen = <<"setup">>
    /\ Len(heap[tree].children) > 0

\* "1. e4 e5 (1... c5 2. Nf3) 2. Nf3" with a for e4, b for e5, c for c5 and
\* d for Nf3
NestedVariationText == <<"a", "b", "(", "c", "d", ")", "d">>

IsMoveToken(tok) == tok \notin {"(", ")"}

\* the node the parse builds for the move token pgn[i]: the parse allocates
\* one node per move token, in the order of the tokens, after the root
RECURSIVE NodeOfToken(_, _)
NodeOfToken(pgn, i) ==
    IF i = 0 THEN 1
    ELSE NodeOfToken(pgn, i - 1) + (IF IsMoveToken(pgn[i]) THEN 1 ELSE 0)

\* how many variations are open after the token pgn[i] (0 before the first)
RECURSIVE DepthAfter(_, _)
DepthAfter(pgn, i) ==
    IF i = 0 THEN 0
    ELSE DepthAfter(pgn, i - 1)
         + (IF pgn[i] = "(" THEN 1 ELSE IF pgn[i] = ")" THEN -1 ELSE 0)

Depths(pgn) == [i \in 0..Len(pgn) |-> DepthAfter(pgn, i)]

\* the move the variation opened at pgn[i] is an alternative to: the last
\* move token before i at the depth the "(" is read at, with no token in
\* between that closes that line; 0 when the line has no move yet.  d is
\* Depths(pgn), the scan goes down from e
RECURSIVE EnclosingMove(_, _, _, _)
EnclosingMove(pgn, d, i, e) ==
    IF e = 0 THEN 0
    ELSE IF d[e] < d[i - 1] THEN 0
    ELSE IF IsMoveToken(pgn[e]) /\ d[e] = d[i - 1] THEN e
    ELSE EnclosingMove(pgn, d, i, e - 1)

\* the ")" that closes the variation opened at pgn[i], 0 when there is none;
\* the scan goes up from j
RECURSIVE ClosingToken(_, _, _, _)
ClosingToken(pgn, d, i, j) ==
    IF j > Len(pgn) THEN 0
    ELSE IF pgn[j] = ")" /\ d[j] = d[i] - 1 THEN j
    ELSE ClosingToken(pgn, d, i, j + 1)

\* C18: a page load parses the stored movetext.  The example text gives a root
\* with the single child a; a has the children b, c in that order; b has the
\* child d and c has the child d.  For every text whose tokens before the last
\* are all read, every move token read has its node, in the order of the
\* tokens; the first move of a variation becomes a later, non-first child of
\* the node the move it is an alternative to was played from; and the move
\* after the closing bracket is played from the node of the move the
\* variation is an alternative to
C18_NestedVariation ==
    [][last'.op = "reload" /\ storage.pgn # <<>> =>
       LET pgn == storage.pgn
           h == heap'
           d == Depths(pgn)
           HasNode(i) == IsMoveToken(pgn[i]) /\ NodeOfToken(pgn, i) <= Len(h)
       IN  /\ pgn = NestedVariationText
              => h = << [parent |-> null, fen |-> <<>>, move |-> noMove, children |-> <<2>>],
                        [parent |-> 1, fen |-> <<"a">>, move |-> "a", children |-> <<3, 4>>],
                        [parent |-> 2, fen |-> <<"a", "b">>, move |-> "b", children |-> <<6>>],
                        [parent |-> 2, fen |-> <<"a", "c">>, move |-> "c", children |-> <<5>>],
                        [parent |-> 4, fen |-> <<"a", "c", "d">>, move |-> "d", children |-> <<>>],
                        [parent |-> 3, fen |-> <<"a", "b", "d">>, move |-> "d", children |-> <<>>] >>
           /\ Len(h) >= NodeOfToken(pgn, Len(pgn) - 1)
           /\ \A i \in 1..Len(pgn) : HasNode(i) => h[NodeOfToken(pgn, i)].move = pgn[i]
           /\ \A i \in {k \in 1..Len(pgn) : pgn[k] = "("} :
                 LET e == EnclosingMove(pgn, d, i, i - 1)
                     alt == NodeOfToken(pgn, e)
                     j == ClosingToken(pgn, d, i, i + 1)
                 IN  e > 0
                     => /\ (i < Len(pgn) /\ HasNode(i + 1))
                           => LET var == NodeOfToken(pgn, i + 1)
                              IN  /\ h[var].parent = h[alt].parent
                                  /\ indexOf(h[h[alt].parent].children, var)
                                        > indexOf(h[h[alt].parent].children, alt)
                                  /\ indexOf(h[h[alt].parent].children, alt) >= 0
                        /\ (j > 0 /\ j < Len(pgn) /\ HasNode(j + 1))
                           => h[NodeOfToken(pgn, j + 1)].parent = alt]_vars

\* the page was loaded with the example text in the storage
C18_Witness ==
    /\ last.op = "reload"
    /\ Len(heap) = 6
    /\ getPGN(heap, 1) = NestedVariationText

\* C19: an engine reply requested for position P is appended to the tree
\* only if, when it arrives, the game is still in state "playing" and the
\* node it is appended to (the end of the main line) still has position P; a
\* reply that arrives after New Game reset the tree changes nothing.  (The
\* claim also asks this of a reply that arrives after the cursor moved; the
\* formula asks less than the claim.)
C19_StaleReplyDiscarded ==
    [][\A request \in BagToSet(pending) : \A move \in BestMoves(request.fen) :
          (engineReplyStep(request, move) /\ root' # root)
              => (gameState = "playing" /\ root = request.fen)]_vars

C21_NoRequestWhenGameOver ==
    [][\A request \in BagToSet(pending') :
          CopiesIn(request, pending') > CopiesIn(request, pending)
              => (gameState' = "playing" /\ ~isGameOver(request.fen))]_vars

\* C22: while the game is played and the side to move at the end of the main
\* line is an engine-type player, eventually a move is appended to the tree
\* or the game leaves "playing" (every issued engine command answers)
C22_EngineTurnEnds ==
    \A n \in 0..MaxPlies :
        (/\ gameState = "playing"
         /\ Len(root) = n
         /\ playerToMove(players, root) \in {"engine", "engineUnset"})
            ~> (Len(root) # n \/ gameState # "playing")

\* C23: undoMove, redoMove, goToStart and goToEnd change only the cursor:
\* the set of nodes and every node's position, move, parent and ordered
\* children list are the same before and after the call
C23_NavigationChangesOnlyCursor ==
    [][last'.op \in {"undoMove", "redoMove", "goToStart", "goToEnd"}
          => heap' = heap]_vars

\* an undoMove has just stepped from a node to its parent, which is not the
\* root
C23_Witness ==
    /\ last.op = "undoMove"
    /\ heap[tree].parent # null
    /\ Len(heap[tree].children) > 0

\* C24: when the position at the cursor is checkmate and the result is
\* still Unknown, the result becomes a win for the side that is not to move;
\* a result that is known is never overwritten, and the result changes in no
\* other way, so it is written at most once
C24_CheckmateResultWrittenOnce ==
    [][/\ (result = Unknown /\ isCheckmate(heap'[tree'].fen))
            => result' = IF turn(heap'[tree'].fen) = "w" THEN BlackWin ELSE WhiteWin
       /\ result # Unknown => result' = result
       /\ result' # result => (result = Unknown /\ isCheckmate(heap'[tree'].fen))]_vars

\* Black has mated, the result was written, and the cursor has stepped back
\* from the mate with the result kept
C24_Witness ==
    /\ result = BlackWin
    /\ last.op = "undoMove"
    /\ ~isCheckmate(heap[tree].fen)

\* the listed files a call must answer for: the name ends in ".db3" and the
\* info of the file could be loaded
Loadable(outcomes) ==
    {i \in 1..Len(files) :
        /\ files[i].name # NoName
        /\ files[i].name[Len(files[i].name)] = ".db3"
        /\ outcomes[files[i].path] = "ok"}

\* C25: getPuzzleDatabases returns exactly the puzzle databases of the files
\* of the puzzles directory whose name ends in ".db3" and whose info could be
\* loaded, each once; a file whose load fails is left out, puts no null entry
\* in the result and never makes the call fail
C25_PuzzleDatabasesOfLoadableFiles ==
    [][\A outcomes \in [1..Len(files) -> LoadOutcomes] :
          getPuzzleDatabasesStep(outcomes, TRUE)
              => /\ puzzles'.status = "resolved"
                 /\ \A k \in 1..Len(puzzles'.dbs) : puzzles'.dbs[k] # nullDatabase
                 /\ {puzzles'.dbs[k] : k \in 1..Len(puzzles'.dbs)}
                        = {PuzzleDatabase(files[i].path) : i \in Loadable(outcomes)}
                 /\ Len(puzzles'.dbs) = Cardinality(Loadable(outcomes))]_vars

\* a call has returned one database from a directory with two entries, one
\* of them a ".db3" file whose load failed
C25_Witness ==
    /\ last = [op |-> "getPuzzleDatabases", err |-> "none"]
    /\ Len(files) = 2
    /\ Len(puzzles.dbs) = 1
    /\ \E i \in 1..Len(files) :
          /\ files[i].name = <<"a", ".db3">>
          /\ puzzles.outcomes[files[i].path] = "fail"

====
